---- MODULE Spec2Model ----
(***************************************************************************)
(* A model of the Mermaid sample extractor (scripts/extract_mermaid_       *)
(* samples.py) and of the sample verifier (scripts/verify_samples.py).     *)
(*                                                                         *)
(* Text is a sequence of ASCII characters, each character a one-character  *)
(* string.  The regular expressions of the extractors are modelled by the  *)
(* matches re.finditer yields on such a sequence: leftmost match first,    *)
(* the search resuming where the previous match ended.                     *)
(***************************************************************************)
EXTENDS Integers, Sequences, FiniteSets, TLC

VARIABLES
    corpus,           \* main: what rglob yields, in traversal order
    root,             \* the output root: its file-size limit, and the
                      \* directories under it that cannot be made
    pos,              \* main: the next entry of the traversal
    run,              \* which invocation of main this is
    pc,               \* where the program is
    disk,             \* the files under mermaid-samples/: path -> content
    all_saved_files,  \* main: all_saved_files
    processed_count,  \* main: processed_count
    summary,          \* main: the lines of the final report
    first_run,        \* the disk and the summary the first run left
    samples,          \* process_file: samples, as the extractor returned it
    saved_files,      \* process_file: saved_files
    verdicts,         \* verify_samples: check_sample_structure per artifact
    text,             \* detect_diagram_type: mermaid_code
    tag               \* detect_diagram_type: the value returned

vars == <<corpus, root, pos, run, pc, disk, all_saved_files, processed_count,
          summary, first_run, samples, saved_files, verdicts, text, tag>>

----------------------------------------------------------------------------
(* Characters.                                                             *)

\* U+0060, which a TLA+ string literal cannot hold.
Backtick == "BACKTICK"

\* U+000B and U+001C to U+001F, which a TLA+ string literal cannot hold.
VerticalTab == "U+000B"

FileSeparator == "U+001C"

GroupSeparator == "U+001D"

RecordSeparator == "U+001E"

UnitSeparator == "U+001F"

\* What str.strip() removes and \s matches, among ASCII characters.
Whitespace == {" ", "\t", "\n", "\r", "\f", VerticalTab, FileSeparator,
               GroupSeparator, RecordSeparator, UnitSeparator}

UpperAZ == <<"A", "B", "C", "D", "E", "F", "G", "H", "I", "J", "K", "L", "M", "N", "O", "P", "Q", "R", "S", "T", "U", "V", "W", "X", "Y", "Z">>

LowerAZ == <<"a", "b", "c", "d", "e", "f", "g", "h", "i", "j", "k", "l", "m", "n", "o", "p", "q", "r", "s", "t", "u", "v", "w", "x", "y", "z">>

Digits == <<"0", "1", "2", "3", "4", "5", "6", "7", "8", "9">>

\* What \w matches, among ASCII characters.
WordChars == {UpperAZ[i] : i \in 1..26} \cup {LowerAZ[i] : i \in 1..26}
             \cup {Digits[i] : i \in 1..10} \cup {"_"}

\* The character class ['"`] of the string-literal patterns.
Quotes == {"'", "\"", Backtick}

LowerOf == [c \in {UpperAZ[i] : i \in 1..26} |->
              LowerAZ[CHOOSE i \in 1..26 : UpperAZ[i] = c]]

ToLower(c) == IF c \in DOMAIN LowerOf THEN LowerOf[c] ELSE c

----------------------------------------------------------------------------
(* Operations of str.                                                      *)

Min(S) == CHOOSE x \in S : \A y \in S : x <= y

Max(S) == CHOOSE x \in S : \A y \in S : x >= y

\* s[i], or "" past either end of s.
CharAt(s, i) == IF i \in 1..Len(s) THEN s[i] ELSE ""

\* str.lower()
Lower(s) == [i \in 1..Len(s) |-> ToLower(s[i])]

\* p occurs in s at index i.
StartsWithAt(s, i, p) ==
    /\ i >= 1
    /\ i + Len(p) - 1 <= Len(s)
    /\ \A k \in 1..Len(p) : s[i + k - 1] = p[k]

\* p occurs in s at index i, letter case ignored (re.IGNORECASE).
StartsWithAtCI(s, i, p) ==
    /\ i >= 1
    /\ i + Len(p) - 1 <= Len(s)
    /\ \A k \in 1..Len(p) : ToLower(s[i + k - 1]) = ToLower(p[k])

\* str.startswith
StartsWith(s, p) == StartsWithAt(s, 1, p)

\* The least index >= i at which p occurs in s; 0 when there is none.
Find(s, p, i) ==
    LET at == {j \in i..(Len(s) - Len(p) + 1) : StartsWithAt(s, j, p)}
    IN  IF at = {} THEN 0 ELSE Min(at)

FindCI(s, p, i) ==
    LET at == {j \in i..(Len(s) - Len(p) + 1) : StartsWithAtCI(s, j, p)}
    IN  IF at = {} THEN 0 ELSE Min(at)

\* The least index >= i of a character of s that is in set C; 0 when none.
FindIn(s, C, i) ==
    LET at == {j \in i..Len(s) : s[j] \in C}
    IN  IF at = {} THEN 0 ELSE Min(at)

\* The least index >= i of a character of s that is not in set C; Len(s)+1
\* when there is none: where a greedy C* that starts at i stops.
SkipAll(s, C, i) ==
    LET at == {j \in i..Len(s) : s[j] \notin C}
    IN  IF at = {} THEN Len(s) + 1 ELSE Min(at)

\* str.strip()
Strip(s) ==
    LET at == {i \in 1..Len(s) : s[i] \notin Whitespace}
    IN  IF at = {} THEN <<>> ELSE SubSeq(s, Min(at), Max(at))

\* str.count('\n') of s[:n]
CountNewlines(s, n) == Cardinality({i \in 1..n : s[i] = "\n"})

\* str.replace(old, new): left to right, occurrences not overlapping.
RECURSIVE ReplaceFrom(_, _, _, _)
ReplaceFrom(s, old, new, i) ==
    LET j == Find(s, old, i)
    IN  IF j = 0 THEN SubSeq(s, i, Len(s))
        ELSE SubSeq(s, i, j - 1) \o new \o ReplaceFrom(s, old, new, j + Len(old))

Replace(s, old, new) == ReplaceFrom(s, old, new, 1)

\* re.sub(r'\s+', ' ', s): each run of whitespace becomes one space.
RECURSIVE CollapseFrom(_, _)
CollapseFrom(s, i) ==
    LET j == FindIn(s, Whitespace, i)
    IN  IF j = 0 THEN SubSeq(s, i, Len(s))
        ELSE SubSeq(s, i, j - 1) \o <<" ">>
             \o CollapseFrom(s, SkipAll(s, Whitespace, j))

CollapseWhitespace(s) == CollapseFrom(s, 1)

\* str.split(sep) for a one-character sep: the pieces, in order.
RECURSIVE SplitFrom(_, _, _)
SplitFrom(s, sep, i) ==
    LET j == FindIn(s, {sep}, i)
    IN  IF j = 0 THEN <<SubSeq(s, i, Len(s))>>
        ELSE <<SubSeq(s, i, j - 1)>> \o SplitFrom(s, sep, j + 1)

Split(s, sep) == SplitFrom(s, sep, 1)

\* str(n) for n >= 0
RECURSIVE IntStr(_)
IntStr(n) ==
    IF n < 10 THEN <<Digits[n + 1]>>
    ELSE IntStr(n \div 10) \o <<Digits[(n % 10) + 1]>>

\* f"{n:03d}"
Pad3(n) ==
    LET d == IntStr(n)
    IN  IF Len(d) >= 3 THEN d
        ELSE [i \in 1..(3 - Len(d)) |-> "0"] \o d

\* The concatenation of a sequence of texts.
RECURSIVE Concat(_)
Concat(ss) == IF ss = <<>> THEN <<>> ELSE Head(ss) \o Concat(Tail(ss))

----------------------------------------------------------------------------
(* The literals of the extractors' patterns.                               *)

FENCE_OPEN == <<Backtick, Backtick, Backtick, "m", "e", "r", "m", "a", "i", "d", "\n">>

FENCE_CLOSE == <<"\n", Backtick, Backtick, Backtick>>

DIV_OPEN == <<"<", "d", "i", "v">>

DIV_CLASS == <<"c", "l", "a", "s", "s", "=", "\"", "m", "e", "r", "m", "a", "i", "d", "\"">>

DIV_CLOSE == <<"<", "/", "d", "i", "v", ">">>

KEY_MERMAID == <<"m", "e", "r", "m", "a", "i", "d", ":">>

KEY_CONTENT == <<"c", "o", "n", "t", "e", "n", "t", ":">>

WORD_VAR == <<"v", "a", "r">>

WORD_CONST == <<"c", "o", "n", "s", "t">>

\* The alternation (?:graph|flowchart|...|mindmap) of the keyword patterns.
KEYWORDS == <<
    <<"g", "r", "a", "p", "h">>,
    <<"f", "l", "o", "w", "c", "h", "a", "r", "t">>,
    <<"s", "e", "q", "u", "e", "n", "c", "e", "D", "i", "a", "g", "r", "a", "m">>,
    <<"g", "a", "n", "t", "t">>,
    <<"c", "l", "a", "s", "s", "D", "i", "a", "g", "r", "a", "m">>,
    <<"s", "t", "a", "t", "e", "D", "i", "a", "g", "r", "a", "m">>,
    <<"p", "i", "e">>,
    <<"g", "i", "t", "G", "r", "a", "p", "h">>,
    <<"j", "o", "u", "r", "n", "e", "y">>,
    <<"C", "4", "C", "o", "n", "t", "e", "x", "t">>,
    <<"C", "4", "C", "o", "n", "t", "a", "i", "n", "e", "r">>,
    <<"C", "4", "C", "o", "m", "p", "o", "n", "e", "n", "t">>,
    <<"C", "4", "D", "y", "n", "a", "m", "i", "c">>,
    <<"C", "4", "D", "e", "p", "l", "o", "y", "m", "e", "n", "t">>,
    <<"e", "r", "D", "i", "a", "g", "r", "a", "m">>,
    <<"a", "r", "c", "h", "i", "t", "e", "c", "t", "u", "r", "e">>,
    <<"t", "i", "m", "e", "l", "i", "n", "e">>,
    <<"k", "a", "n", "b", "a", "n">>,
    <<"r", "a", "d", "a", "r">>,
    <<"t", "r", "e", "e", "m", "a", "p">>,
    <<"s", "a", "n", "k", "e", "y">>,
    <<"q", "u", "a", "d", "r", "a", "n", "t">>,
    <<"x", "y", "c", "h", "a", "r", "t">>,
    <<"p", "a", "c", "k", "e", "t">>,
    <<"r", "e", "q", "u", "i", "r", "e", "m", "e", "n", "t">>,
    <<"b", "l", "o", "c", "k">>,
    <<"m", "i", "n", "d", "m", "a", "p">> >>

----------------------------------------------------------------------------
(* Matches.  A match is [start, gs, ge, end]: it begins at index start,    *)
(* its group 1 is content[gs..ge] and the search resumes at index end.     *)
(* NoMatch (start = 0) says the pattern does not match at the index asked. *)

NoMatch == [start |-> 0, gs |-> 0, ge |-> 0, end |-> 0]

Group(content, m) == SubSeq(content, m.gs, m.ge)

\* A match whose lazy group (.*?) begins at gs and stops before the closing
\* literal of n characters first found at index e; none when e = 0.
MatchUntil(start, gs, e, n) ==
    IF e = 0 THEN NoMatch
    ELSE [start |-> start, gs |-> gs, ge |-> e - 1, end |-> e + n]

\* (?:graph|flowchart|...|mindmap) matches at index i.
KeywordAt(content, i) ==
    \E k \in 1..Len(KEYWORDS) : StartsWithAt(content, i, KEYWORDS[k])

\* ['"`]((?:keyword).*?)['"`] with its opening quote at index q, as a match
\* that begins at index start.  No keyword holds a quote, so the group ends
\* before the first quote after q.
QuotedKeywordAt(content, start, q) ==
    IF CharAt(content, q) \in Quotes /\ KeywordAt(content, q + 1)
    THEN MatchUntil(start, q + 1, FindIn(content, Quotes, q + 1), 1)
    ELSE NoMatch

\* ```mermaid\n(.*?)\n``` at index s.
MarkdownAt(content, s) ==
    IF StartsWithAt(content, s, FENCE_OPEN)
    THEN MatchUntil(s, s + Len(FENCE_OPEN),
                    Find(content, FENCE_CLOSE, s + Len(FENCE_OPEN)),
                    Len(FENCE_CLOSE))
    ELSE NoMatch

\* The rest of the <div> pattern, given the first > after <div (gt) and the
\* first class="mermaid" after <div (c): the attribute lies before that >,
\* and the group runs from it to the first </div>.
DivBody(content, s, gt, c) ==
    IF gt = 0 \/ c = 0 \/ c + Len(DIV_CLASS) > gt THEN NoMatch
    ELSE MatchUntil(s, gt + 1, FindCI(content, DIV_CLOSE, gt + 1),
                    Len(DIV_CLOSE))

\* <div[^>]*class="mermaid"[^>]*>(.*?)</div> at index s, case ignored.
DivAt(content, s) ==
    IF StartsWithAtCI(content, s, DIV_OPEN)
    THEN DivBody(content, s,
                 FindIn(content, {">"}, s + Len(DIV_OPEN)),
                 FindCI(content, DIV_CLASS, s + Len(DIV_OPEN)))
    ELSE NoMatch

\* word\s+\w+\s*=\s* at index s: the index after it, 0 when it does not match.
AssignAt(content, s, word) ==
    IF ~StartsWithAt(content, s, word) THEN 0
    ELSE LET a == s + Len(word)
             b == SkipAll(content, Whitespace, a)
             c == SkipAll(content, WordChars, b)
             d == SkipAll(content, Whitespace, c)
         IN  IF b = a \/ c = b \/ CharAt(content, d) # "=" THEN 0
             ELSE SkipAll(content, Whitespace, d + 1)

\* The string-literal pattern at s after an assignment that ends before q.
AssignedAt(content, s, q) ==
    IF q = 0 THEN NoMatch ELSE QuotedKeywordAt(content, s, q)

\* The first of three alternatives that matches.
FirstOf(m1, m2, m3) ==
    IF m1.start # 0 THEN m1 ELSE IF m2.start # 0 THEN m2 ELSE m3

\* (?:var\s+\w+\s*=\s*|const\s+\w+\s*=\s*)?['"`]((?:keyword).*?)['"`] at s:
\* the alternatives in the order the pattern tries them.
ScriptStringAt(content, s) ==
    FirstOf(AssignedAt(content, s, AssignAt(content, s, WORD_VAR)),
            AssignedAt(content, s, AssignAt(content, s, WORD_CONST)),
            QuotedKeywordAt(content, s, s))

\* The rest of the mermaid: pattern, its opening quote expected at index q.
QuotedAt(content, s, q) ==
    IF CharAt(content, q) \in Quotes
    THEN MatchUntil(s, q + 1, FindIn(content, Quotes, q + 1), 1)
    ELSE NoMatch

\* mermaid:\s*['"`](.*?)['"`] at index s.
MermaidKeyAt(content, s) ==
    IF StartsWithAt(content, s, KEY_MERMAID)
    THEN QuotedAt(content, s,
                  SkipAll(content, Whitespace, s + Len(KEY_MERMAID)))
    ELSE NoMatch

\* content:\s*['"`]((?:keyword).*?)['"`] at index s.
ContentKeyAt(content, s) ==
    IF StartsWithAt(content, s, KEY_CONTENT)
    THEN QuotedKeywordAt(content, s,
                         SkipAll(content, Whitespace, s + Len(KEY_CONTENT)))
    ELSE NoMatch

MatchAt(pattern, content, s) ==
    CASE pattern = "markdown"     -> MarkdownAt(content, s)
      [] pattern = "div"          -> DivAt(content, s)
      [] pattern = "script"       -> ScriptStringAt(content, s)
      [] pattern = "literal"      -> QuotedKeywordAt(content, s, s)
      [] pattern = "mermaid_key"  -> MermaidKeyAt(content, s)
      [] pattern = "content_key"  -> ContentKeyAt(content, s)

\* The least index >= from at which the pattern matches; 0 when none.
FirstIn(S) == IF S = {} THEN 0 ELSE Min(S)

NextStart(pattern, content, from) ==
    FirstIn({s \in from..Len(content) : MatchAt(pattern, content, s).start # 0})

\* re.finditer(pattern, content): the matches from index from on, leftmost
\* first, the search resuming where a match ended.  No pattern matches the
\* empty text, so every match ends after it begins.
RECURSIVE FindIterFrom(_, _, _)
Emit(pattern, content, m) ==
    <<m>> \o FindIterFrom(pattern, content, m.end)

Resume(pattern, content, s) ==
    IF s = 0 THEN <<>> ELSE Emit(pattern, content, MatchAt(pattern, content, s))

FindIterFrom(pattern, content, from) ==
    Resume(pattern, content, NextStart(pattern, content, from))

finditer(pattern, content) == FindIterFrom(pattern, content, 1)

\* line_num without the + 1: lines numbered from 0.
line_num_from_zero(content, m) == CountNewlines(content, m.start - 1)

\* line_num = content[:match.start()].count('\n') + 1
line_num(content, m) == CountNewlines(content, m.start - 1) + 1

\* f"{file_path}:L{line_num}"
Locator(file_path, line) == file_path \o <<":", "L">> \o IntStr(line)

Sample(code, source_info, index) ==
    [code |-> code, source_info |-> source_info, index |-> index]

----------------------------------------------------------------------------
(* The extractors.  Each returns the list of (code, source_info, index).   *)

\* The clean-up of a <div> body: strip, collapse whitespace, decode entities.
html_clean(body) ==
    Replace(Replace(Replace(CollapseWhitespace(Strip(body)),
                            <<"&", "l", "t", ";">>, <<"<">>),
                    <<"&", "g", "t", ";">>, <<">">>),
            <<"&", "a", "m", "p", ";">>, <<"&">>)

\* The clean-up of a string literal's body without the unescaping.
js_clean_escaped(body) == Strip(body)

\* The clean-up of a string literal's body: strip, then unescape \n \" \'.
js_clean(body) ==
    Replace(Replace(Replace(Strip(body),
                            <<"\\", "n">>, <<"\n">>),
                    <<"\\", "\"">>, <<"\"">>),
            <<"\\", "'">>, <<"'">>)

\* mermaid_code, from group 1 of a match of the pattern.
clean(pattern, body) ==
    CASE pattern = "div" -> html_clean(body)
      [] pattern \in {"markdown", "script"} -> Strip(body)
      [] pattern \in {"literal", "mermaid_key", "content_key"} -> js_clean(body)

\* One loop with sample_count set back to 0: the numbering of a counter that
\* is not shared by the loops of an extractor.
loop_restarting(pattern, content, file_path, matches, sample_count) ==
    [i \in 1..Len(matches) |->
       Sample(clean(pattern, Group(content, matches[i])),
              Locator(file_path, line_num(content, matches[i])),
              i - 1)]

\* One loop over the matches of a pattern: a sample per match, numbered from
\* sample_count on.
loop(pattern, content, file_path, matches, sample_count) ==
    [i \in 1..Len(matches) |->
       Sample(clean(pattern, Group(content, matches[i])),
              Locator(file_path, line_num(content, matches[i])),
              sample_count + i - 1)]

extract_mermaid_from_markdown(content, file_path) ==
    loop("markdown", content, file_path, finditer("markdown", content), 0)

\* The two loops of the HTML extractor, sample_count running on.
html_loops(content, file_path, m1, m2) ==
    loop("div", content, file_path, m1, 0)
    \o loop("script", content, file_path, m2, Len(m1))

extract_mermaid_from_html(content, file_path) ==
    html_loops(content, file_path,
               finditer("div", content), finditer("script", content))

\* The loop over the three patterns, sample_count running on.
js_loops(content, file_path, m1, m2, m3) ==
    loop("literal", content, file_path, m1, 0)
    \o loop("mermaid_key", content, file_path, m2, Len(m1))
    \o loop("content_key", content, file_path, m3, Len(m1) + Len(m2))

extract_mermaid_from_js(content, file_path) ==
    js_loops(content, file_path,
             finditer("literal", content),
             finditer("mermaid_key", content),
             finditer("content_key", content))

----------------------------------------------------------------------------
(* detect_diagram_type.                                                    *)

P(kw, space) == [kw |-> kw, space |-> space]

T(type, patterns) == [type |-> type, patterns |-> patterns]

MISC == <<"m", "i", "s", "c">>

\* type_patterns, in the order of the dict.  A pattern is ^kw, or ^kw\s when
\* space is TRUE.
TYPE_PATTERNS == <<
    T(<<"f", "l", "o", "w", "c", "h", "a", "r", "t">>, <<P(<<"f", "l", "o", "w", "c", "h", "a", "r", "t">>, TRUE), P(<<"g", "r", "a", "p", "h">>, TRUE)>>),
    T(<<"s", "e", "q", "u", "e", "n", "c", "e">>, <<P(<<"s", "e", "q", "u", "e", "n", "c", "e", "d", "i", "a", "g", "r", "a", "m">>, FALSE)>>),
    T(<<"g", "a", "n", "t", "t">>, <<P(<<"g", "a", "n", "t", "t">>, FALSE)>>),
    T(<<"c", "l", "a", "s", "s">>, <<P(<<"c", "l", "a", "s", "s", "d", "i", "a", "g", "r", "a", "m">>, FALSE)>>),
    T(<<"s", "t", "a", "t", "e">>, <<P(<<"s", "t", "a", "t", "e", "d", "i", "a", "g", "r", "a", "m">>, FALSE)>>),
    T(<<"p", "i", "e">>, <<P(<<"p", "i", "e">>, FALSE)>>),
    T(<<"g", "i", "t">>, <<P(<<"g", "i", "t", "g", "r", "a", "p", "h">>, FALSE)>>),
    T(<<"j", "o", "u", "r", "n", "e", "y">>, <<P(<<"j", "o", "u", "r", "n", "e", "y">>, FALSE)>>),
    T(<<"c", "4">>, <<P(<<"c", "4", "c", "o", "n", "t", "e", "x", "t">>, FALSE), P(<<"c", "4", "c", "o", "n", "t", "a", "i", "n", "e", "r">>, FALSE),
               P(<<"c", "4", "c", "o", "m", "p", "o", "n", "e", "n", "t">>, FALSE), P(<<"c", "4", "d", "y", "n", "a", "m", "i", "c">>, FALSE),
               P(<<"c", "4", "d", "e", "p", "l", "o", "y", "m", "e", "n", "t">>, FALSE)>>),
    T(<<"e", "r">>, <<P(<<"e", "r", "d", "i", "a", "g", "r", "a", "m">>, FALSE)>>),
    T(<<"a", "r", "c", "h", "i", "t", "e", "c", "t", "u", "r", "e">>, <<P(<<"a", "r", "c", "h", "i", "t", "e", "c", "t", "u", "r", "e">>, FALSE)>>),
    T(<<"t", "i", "m", "e", "l", "i", "n", "e">>, <<P(<<"t", "i", "m", "e", "l", "i", "n", "e">>, FALSE)>>),
    T(<<"k", "a", "n", "b", "a", "n">>, <<P(<<"k", "a", "n", "b", "a", "n">>, FALSE)>>),
    T(<<"r", "a", "d", "a", "r">>, <<P(<<"r", "a", "d", "a", "r">>, FALSE)>>),
    T(<<"t", "r", "e", "e", "m", "a", "p">>, <<P(<<"t", "r", "e", "e", "m", "a", "p">>, FALSE)>>),
    T(<<"s", "a", "n", "k", "e", "y">>, <<P(<<"s", "a", "n", "k", "e", "y">>, FALSE)>>),
    T(<<"q", "u", "a", "d", "r", "a", "n", "t">>, <<P(<<"q", "u", "a", "d", "r", "a", "n", "t">>, FALSE)>>),
    T(<<"x", "y">>, <<P(<<"x", "y", "c", "h", "a", "r", "t">>, FALSE)>>),
    T(<<"p", "a", "c", "k", "e", "t">>, <<P(<<"p", "a", "c", "k", "e", "t">>, FALSE)>>),
    T(<<"r", "e", "q", "u", "i", "r", "e", "m", "e", "n", "t">>, <<P(<<"r", "e", "q", "u", "i", "r", "e", "m", "e", "n", "t">>, FALSE)>>),
    T(<<"b", "l", "o", "c", "k">>, <<P(<<"b", "l", "o", "c", "k">>, FALSE)>>),
    T(<<"m", "i", "n", "d", "m", "a", "p">>, <<P(<<"m", "i", "n", "d", "m", "a", "p">>, FALSE)>>) >>

\* re.match(pattern, code_lower)
re_match(p, s) ==
    /\ StartsWith(s, p.kw)
    /\ p.space => CharAt(s, Len(p.kw) + 1) \in Whitespace

\* Some pattern of an entry of the table matches.
type_matches(entry, code_lower) ==
    \E p \in 1..Len(entry.patterns) : re_match(entry.patterns[p], code_lower)

\* The type of the first entry among hits; misc when there is none.
first_type(table, hits) == IF hits = {} THEN MISC ELSE table[Min(hits)].type

\* The loop over the table, code_lower being mermaid_code.lower().strip().
type_loop(table, code_lower) ==
    first_type(table, {t \in 1..Len(table) : type_matches(table[t], code_lower)})

\* The loop given the text as written: trimmed, not lower-cased.
detect_case_sensitive(code) == type_loop(TYPE_PATTERNS, Strip(code))

detect_diagram_type(code) == type_loop(TYPE_PATTERNS, Strip(Lower(code)))

----------------------------------------------------------------------------
(* save_mermaid_sample.                                                    *)

Last(s) == s[Len(s)]

\* source_info.split(':')[0].split('/')[-1].replace('.', '_')
source_file(source_info) ==
    Replace(Last(Split(Head(Split(source_info, ":")), "/")), <<".">>, <<"_">>)

\* f"{source_file}_{sample_index:03d}.mermaid"
filename(source_info, sample_index) ==
    source_file(source_info) \o <<"_">> \o Pad3(sample_index) \o <<".", "m", "e", "r", "m", "a", "i", "d">>

\* Path(f"mermaid-samples/{diagram_type}")
output_dir(diagram_type) == <<"m", "e", "r", "m", "a", "i", "d", "-", "s", "a", "m", "p", "l", "e", "s", "/">> \o diagram_type

\* str(output_dir / filename)
output_path(diagram_type, source_info, sample_index) ==
    output_dir(diagram_type) \o <<"/">>
        \o filename(source_info, sample_index)

header(diagram_type, source_info) ==
    <<"/", "/", " ", "S", "o", "u", "r", "c", "e", ":", " ">> \o source_info \o <<"\n", "/", "/", " ", "T", "y", "p", "e", ":", " ">> \o diagram_type
        \o <<"\n", "/", "/", " ", "G", "e", "n", "e", "r", "a", "t", "e", "d", " ", "b", "y", " ", "m", "e", "r", "m", "a", "i", "d", " ", "s", "a", "m", "p", "l", "e", " ", "e", "x", "t", "r", "a", "c", "t", "o", "r", "\n", "\n">>

\* What save_mermaid_sample writes, and where: the directory it makes, the
\* file it opens, and the text it writes to it.
save_mermaid_sample(mermaid_code, diagram_type, source_info, sample_index) ==
    [dir     |-> output_dir(diagram_type),
     path    |-> output_path(diagram_type, source_info, sample_index),
     content |-> header(diagram_type, source_info) \o mermaid_code \o <<"\n">>]

\* open(output_path, 'a') and f.write: an existing file is added to.
WriteAppend(d, w) ==
    IF w.path \in DOMAIN d
    THEN (w.path :> (d[w.path] \o w.content)) @@ d
    ELSE (w.path :> w.content) @@ d

\* open(output_path, 'w') and f.write: the file is created or replaced.
Write(d, w) == (w.path :> w.content) @@ d

\* The save raises OSError under the output root r: output_dir.mkdir (line
\* 124) fails on a directory that cannot be made, and f.write (line 136,
\* flushed when the with block closes the file) fails on a text longer than
\* the file-size limit.
Fails(w, r) ==
    \/ w.dir \in r.blocked
    \/ r.limited /\ Len(w.content) > r.limit

\* What a save that raises leaves, as a list of writes: nothing when mkdir
\* fails; when f.write fails, the file open(output_path, 'w') (line 135)
\* created or emptied, holding the characters written up to the limit.
Torn(w, r) ==
    IF w.dir \in r.blocked THEN <<>>
    ELSE <<[dir |-> w.dir, path |-> w.path,
            content |-> SubSeq(w.content, 1, r.limit)]>>

\* The first of the saves that raises, 0 when none does.
first_failure(writes, r) ==
    FirstIn({k \in 1..Len(writes) : Fails(writes[k], r)})

RECURSIVE SaveAll(_, _)
SaveAll(d, writes) ==
    IF writes = <<>> THEN d ELSE SaveAll(Write(d, Head(writes)), Tail(writes))

----------------------------------------------------------------------------
(* process_file.                                                           *)

\* Path.suffix: the last dot of the final component and what follows it,
\* unless that dot begins or ends the component.
Suffix(path) ==
    LET name == Last(Split(path, "/"))
        dots == {i \in 1..Len(name) : name[i] = "."}
    IN  IF dots = {} THEN <<>>
        ELSE IF Max(dots) = 1 \/ Max(dots) = Len(name) THEN <<>>
        ELSE SubSeq(name, Max(dots), Len(name))

MARKDOWN_SUFFIXES == {<<".", "m", "d">>, <<".", "m", "a", "r", "k", "d", "o", "w", "n">>}

HTML_SUFFIXES == {<<".", "h", "t", "m", "l">>, <<".", "h", "t", "m">>}

SCRIPT_SUFFIXES == {<<".", "j", "s">>, <<".", "t", "s">>, <<".", "j", "s", "x">>, <<".", "t", "s", "x">>}

MERMAID_SUFFIX == <<".", "m", "e", "r", "m", "a", "i", "d">>

\* samples, by the suffix of the file.
extract(file_path, content) ==
    LET suffix == Suffix(file_path)
    IN  IF suffix \in MARKDOWN_SUFFIXES
          THEN extract_mermaid_from_markdown(content, file_path)
        ELSE IF suffix \in HTML_SUFFIXES
          THEN extract_mermaid_from_html(content, file_path)
        ELSE IF suffix \in SCRIPT_SUFFIXES
          THEN extract_mermaid_from_js(content, file_path)
        ELSE IF suffix = MERMAID_SUFFIX
          THEN <<Sample(Strip(content), file_path, 0)>>
        ELSE <<>>

\* if mermaid_code and len(mermaid_code.strip()) > 0
NonEmpty(sample) == sample.code # <<>> /\ Len(Strip(sample.code)) > 0

\* One save per sample that passed the test, in order.
save_each(kept) ==
    [k \in 1..Len(kept) |->
       save_mermaid_sample(kept[k].code, detect_diagram_type(kept[k].code),
                           kept[k].source_info, kept[k].index)]

\* The loop over samples.
saves(extracted) == save_each(SelectSeq(extracted, NonEmpty))

\* open(..., 'r') and f.read(): universal newlines, \r\n and \r are read as
\* \n.
ReadText(content) == Replace(Replace(content, <<"\r", "\n">>, <<"\n">>),
                             <<"\r">>, <<"\n">>)

\* process_file of a file that can be read (readable) or cannot, content
\* being what the file holds: the samples extracted and the writes made, in
\* order.
processed(extracted) == [samples |-> extracted, writes |-> saves(extracted)]

process_file(file_path, content, readable) ==
    processed(IF readable THEN extract(file_path, ReadText(content))
              ELSE <<>>)

Paths(writes) == [k \in 1..Len(writes) |-> writes[k].path]

----------------------------------------------------------------------------
(* verify_samples.check_sample_structure.                                  *)

\* not line.strip().startswith('//') and line.strip()
IsContentLine(line) ==
    /\ ~StartsWith(Strip(line), <<"/", "/">>)
    /\ Strip(line) # <<>>

check_sample_structure(stored) ==
    LET content    == ReadText(stored)
        has_source == Find(content, <<"S", "o", "u", "r", "c", "e", ":">>, 1) # 0
        has_type   == Find(content, <<"T", "y", "p", "e", ":">>, 1) # 0
        lines      == Split(content, "\n")
        line_count == Cardinality({i \in 1..Len(lines) : IsContentLine(lines[i])})
    IN  [has_source  |-> has_source,
         has_type    |-> has_type,
         has_content |-> line_count > 0,
         line_count  |-> line_count,
         valid       |-> has_source /\ has_type /\ line_count > 0]

----------------------------------------------------------------------------
(* main.                                                                   *)

EXTENSIONS == MARKDOWN_SUFFIXES \cup HTML_SUFFIXES \cup SCRIPT_SUFFIXES
              \cup {MERMAID_SUFFIX}

EXCLUDED == {<<"n", "o", "d", "e", "_", "m", "o", "d", "u", "l", "e", "s">>, <<".", "g", "i", "t">>, <<"d", "i", "s", "t">>, <<"b", "u", "i", "l", "d">>}

\* any(part in str(file_path) for part in [...])
is_excluded(file_path) == \E part \in EXCLUDED : Find(file_path, part, 1) # 0

\* file_path.is_file() and file_path.suffix in extensions
is_candidate(entry) == entry.is_file /\ Suffix(entry.path) \in EXTENSIONS

\* file_path.split('/')[-2]
type_of(saved_file) ==
    LET parts == Split(saved_file, "/") IN parts[Len(parts) - 1]

\* type_counts
type_counts(saved) ==
    [t \in {type_of(saved[i]) : i \in 1..Len(saved)} |->
       Cardinality({i \in 1..Len(saved) : type_of(saved[i]) = t})]

----------------------------------------------------------------------------
(* Bounds and inputs.                                                      *)

\* The most fragments a file of the process_file specification is made of.
MaxFrags == 2

\* The most entries the traversal of main yields.
MaxFiles == 2

\* The sequences of at most n elements of S.
SeqsUpTo(S, n) == UNION {[1..k -> S] : k \in 0..n}

E(path, is_file, readable, content) ==
    [path |-> path, is_file |-> is_file, readable |-> readable,
     content |-> content]

\* Fragments of markdown files.
MD_BLANK_BLOCK == <<Backtick, Backtick, Backtick, "m", "e", "r", "m", "a", "i", "d", "\n", " ", "\n", Backtick, Backtick, Backtick, "\n">>

MD_GRAPH_BLOCK == <<Backtick, Backtick, Backtick, "m", "e", "r", "m", "a", "i", "d", "\n", "g", "r", "a", "p", "h", " ", "T", "D", "\n", "A", "-", "-", ">", "B", "\n", Backtick, Backtick, Backtick, "\n">>

MD_GRAPH_BODY == <<"g", "r", "a", "p", "h", " ", "T", "D", "\n", "A", "-", "-", ">", "B">>

MD_GRAPH_LR_BLOCK == <<Backtick, Backtick, Backtick, "m", "e", "r", "m", "a", "i", "d", "\n", "g", "r", "a", "p", "h", " ", "L", "R", "\n", "C", "-", "-", ">", "D", "\n", "D", "-", "-", ">", "E", "\n", Backtick, Backtick, Backtick, "\n">>

\* MD_GRAPH_BLOCK in a file with \r\n line ends.
MD_CRLF_BLOCK == <<Backtick, Backtick, Backtick, "m", "e", "r", "m", "a", "i", "d", "\r", "\n", "g", "r", "a", "p", "h", " ", "T", "D", "\r", "\n", "A", "-", "-", ">", "B", "\r", "\n", Backtick, Backtick, Backtick, "\r", "\n">>

MD_PIE_BLOCK == <<Backtick, Backtick, Backtick, "m", "e", "r", "m", "a", "i", "d", "\n", "p", "i", "e", " ", "t", "i", "t", "l", "e", " ", "X", "\n", Backtick, Backtick, Backtick, "\n">>

COMMENT_LINE == <<"/", "/", " ", "c">>

MD_PROSE == <<"I", "n", "t", "r", "o", "\n", "\n">>

MD_FRAGMENTS == {MD_BLANK_BLOCK, MD_GRAPH_BLOCK, MD_CRLF_BLOCK, FENCE_OPEN,
                 FENCE_CLOSE, COMMENT_LINE, MD_PROSE, <<"\n">>, <<"\r">>}

\* Fragments of HTML files.
HTML_BLANK_DIV == <<"<", "d", "i", "v", " ", "c", "l", "a", "s", "s", "=", "\"", "m", "e", "r", "m", "a", "i", "d", "\"", ">", " ", "<", "/", "d", "i", "v", ">">>

HTML_PIE_DIV == <<"<", "d", "i", "v", " ", "c", "l", "a", "s", "s", "=", "\"", "m", "e", "r", "m", "a", "i", "d", "\"", ">", "\n", " ", "p", "i", "e", " ", " ", "t", "i", "t", "l", "e", " ", "X", " ", "&", "l", "t", ";", "\n", "<", "/", "d", "i", "v", ">">>

HTML_PIE_BODY == <<"p", "i", "e", " ", "t", "i", "t", "l", "e", " ", "X", " ", "<">>

HTML_DIV_TAG == <<"<", "D", "I", "V", " ", "i", "d", "=", "\"", "a", "\"", " ", "C", "L", "A", "S", "S", "=", "\"", "M", "e", "r", "m", "a", "i", "d", "\"", ">">>

HTML_ASSIGN == <<"v", "a", "r", " ", "x", " ", "=", "\n">>

HTML_LITERAL == <<"\"", "g", "r", "a", "p", "h", " ", "T", "D", "\"">>

HTML_LITERAL_BODY == <<"g", "r", "a", "p", "h", " ", "T", "D">>

HTML_FRAGMENTS == {HTML_BLANK_DIV, HTML_PIE_DIV, HTML_DIV_TAG, DIV_CLOSE,
                   COMMENT_LINE, HTML_ASSIGN, HTML_LITERAL, <<"\n">>}

\* Fragments of script files; \n in JS_SEQUENCE, JS_GRAPH and JS_COMMENT is
\* the two-character escape.
JS_CONTENT_KEY == <<"c", "o", "n", "t", "e", "n", "t", ":", " ">>

JS_MERMAID_KEY == <<"m", "e", "r", "m", "a", "i", "d", ":", " ">>

JS_SEQUENCE == <<"\"", "s", "e", "q", "u", "e", "n", "c", "e", "D", "i", "a", "g", "r", "a", "m", "\\", "n", "A", "-", ">", ">", "B", ":", " ", "h", "i", "\"">>

JS_SEQUENCE_BODY == <<"s", "e", "q", "u", "e", "n", "c", "e", "D", "i", "a", "g", "r", "a", "m", "\n", "A", "-", ">", ">", "B", ":", " ", "h", "i">>

JS_GRAPH == <<"'", "g", "r", "a", "p", "h", " ", "T", "D", "\\", "n", "'">>

JS_EMPTY == <<"\"", "\"">>

JS_COMMENT == <<"\"", "\\", "n", "/", "/", " ", "c", "\"">>

JS_FILLER == <<"x", " ", "=", " ">>

JS_FRAGMENTS == {JS_CONTENT_KEY, JS_MERMAID_KEY, JS_SEQUENCE, JS_GRAPH,
                 JS_EMPTY, JS_COMMENT, JS_FILLER, <<"\n">>}

\* Fragments of diagram files.
MERMAID_FRAGMENTS == {MD_GRAPH_BODY, COMMENT_LINE, <<"p", "i", "e">>, <<"\n">>, <<" ">>,
                      <<"\r">>, <<VerticalTab>>}

MD_PATH == <<"m", "e", "r", "m", "a", "i", "d", "/", "d", "o", "c", "s", "/", "x", ".", "m", "d">>

HTML_PATH == <<"m", "e", "r", "m", "a", "i", "d", "/", "d", "e", "m", "o", "s", "/", "x", ".", "h", "t", "m", "l">>

JS_PATH == <<"m", "e", "r", "m", "a", "i", "d", "/", "s", "r", "c", "/", "x", ".", "j", "s">>

MERMAID_PATH == <<"m", "e", "r", "m", "a", "i", "d", "/", "x", ".", "m", "e", "r", "m", "a", "i", "d">>

FilesOf(path, fragments) ==
    {E(path, TRUE, TRUE, Concat(fs)) : fs \in SeqsUpTo(fragments, MaxFrags)}

\* The files process_file is given in the process_file specification.
ProcessInputs ==
    FilesOf(MD_PATH, MD_FRAGMENTS) \cup FilesOf(HTML_PATH, HTML_FRAGMENTS)
    \cup FilesOf(JS_PATH, JS_FRAGMENTS)
    \cup FilesOf(MERMAID_PATH, MERMAID_FRAGMENTS)

\* What rglob may yield in the main specification.
ENTRY_MENU == {
    E(<<"m", "e", "r", "m", "a", "i", "d", "/", "a", "/", "x", ".", "m", "d">>, TRUE, TRUE, MD_GRAPH_BLOCK),
    E(<<"m", "e", "r", "m", "a", "i", "d", "/", "b", "/", "x", ".", "m", "d">>, TRUE, TRUE, MD_GRAPH_LR_BLOCK),
    E(<<"m", "e", "r", "m", "a", "i", "d", "/", "a", ".", "b", ".", "m", "d">>, TRUE, TRUE, MD_GRAPH_BLOCK),
    E(<<"m", "e", "r", "m", "a", "i", "d", "/", "a", "_", "b", ".", "m", "d">>, TRUE, TRUE, MD_GRAPH_LR_BLOCK),
    E(<<"m", "e", "r", "m", "a", "i", "d", "/", ".", "g", "i", "t", "h", "u", "b", "/", "x", ".", "m", "d">>, TRUE, TRUE, MD_PIE_BLOCK),
    E(<<"m", "e", "r", "m", "a", "i", "d", "/", "r", "e", "b", "u", "i", "l", "d", ".", "m", "d">>, TRUE, TRUE, MD_PIE_BLOCK),
    E(<<"m", "e", "r", "m", "a", "i", "d", "/", "d", "i", "s", "t", "/", "y", ".", "m", "d">>, TRUE, TRUE, MD_GRAPH_BLOCK),
    E(<<"m", "e", "r", "m", "a", "i", "d", "/", "n", "o", "t", "e", "s", ".", "t", "x", "t">>, TRUE, TRUE, MD_GRAPH_BLOCK),
    E(<<"m", "e", "r", "m", "a", "i", "d", "/", "d", "o", "c", "s", ".", "m", "d">>, FALSE, FALSE, <<>>),
    E(<<"m", "e", "r", "m", "a", "i", "d", "/", "p", ".", "m", "e", "r", "m", "a", "i", "d">>, TRUE, TRUE, <<"p", "i", "e", " ", "t", "i", "t", "l", "e", " ", "X", "\n">>),
    E(<<"m", "e", "r", "m", "a", "i", "d", "/", "s", ".", "j", "s">>, TRUE, FALSE, JS_SEQUENCE),
    E(<<"m", "e", "r", "m", "a", "i", "d", "/", "t", ".", "j", "s">>, TRUE, TRUE, JS_CONTENT_KEY \o JS_SEQUENCE) }

\* An output root where every save succeeds.
SOUND == [limited |-> FALSE, limit |-> 0, blocked |-> {}]

\* The file-size limits of the output roots: no character fits; the header
\* is cut in its first line, in its third line; the diagram is cut.
LIMITS == {0, 10, 60, 105}

\* The output roots: sound, with a file-size limit, or with the directory
\* of a type that cannot be made (a file of that name is in the way).
ROOTS ==
    {SOUND}
    \cup {[limited |-> TRUE, limit |-> n, blocked |-> {}] : n \in LIMITS}
    \cup {[limited |-> FALSE, limit |-> 0, blocked |-> {output_dir(t)}] :
            t \in {<<"f", "l", "o", "w", "c", "h", "a", "r", "t">>, <<"p", "i", "e">>}}

\* The traversals of a corpus: entries of distinct paths, in any order; and
\* the case of no mermaid/ directory.
Corpora ==
    {[exists |-> FALSE, entries |-> <<>>]} \cup
    {[exists |-> TRUE, entries |-> es] :
       es \in {s \in SeqsUpTo(ENTRY_MENU, MaxFiles) :
                 \A i, j \in 1..Len(s) : i # j => s[i].path # s[j].path}}

Upper(s) == [i \in 1..Len(s) |->
               IF \E k \in 1..26 : LowerAZ[k] = s[i]
               THEN UpperAZ[CHOOSE k \in 1..26 : LowerAZ[k] = s[i]]
               ELSE s[i]]

\* The texts detect_diagram_type is given in the classifier specification:
\* something before, a keyword (as written, lower-cased, upper-cased) or
\* another word, and something after.
ClassifyInputs ==
    LET before == {<<>>, <<" ">>, <<"\n", " ", " ">>, <<VerticalTab>>}
        words  == UNION {{KEYWORDS[k], Lower(KEYWORDS[k]), Upper(KEYWORDS[k])} :
                           k \in 1..Len(KEYWORDS)}
                  \cup {<<>>, <<"h", "e", "l", "l", "o">>, <<"g", "r", "a", "p">>, <<"%", "%", " ", "p", "i", "e">>, <<"C", "4">>}
        after  == {<<>>, <<" ">>, <<" ", "T", "D">>, <<"T", "D">>, <<"\n", "A", "-", "-", ">", "B">>, <<";", "x">>,
                   <<"-", "e", "l", "k", " ", "T", "D">>, <<"\t", "x">>, <<VerticalTab, "T", "D">>,
                   <<UnitSeparator>>}
    IN  {b \o w \o a : b \in before, w \in words, a \in after}

----------------------------------------------------------------------------
(* The state machines.                                                     *)

NoSummary == <<>>

Blank ==
    /\ pos = 1
    /\ run = 1
    /\ disk = <<>>
    /\ all_saved_files = <<>>
    /\ processed_count = 0
    /\ summary = NoSummary
    /\ first_run = <<>>
    /\ samples = <<>>
    /\ saved_files = <<>>
    /\ verdicts = <<>>
    /\ tag = <<>>

(* main, run twice over the same corpus. *)

Init ==
    /\ corpus \in Corpora
    /\ root \in ROOTS
    /\ pc = "start"
    /\ text = <<>>
    /\ Blank

\* if not mermaid_repo_path.exists(): ... return
NoRepository ==
    /\ pc = "start"
    /\ ~corpus.exists
    /\ pc' = "no_repository"
    /\ UNCHANGED <<corpus, root, pos, run, disk, all_saved_files,
                   processed_count, summary, first_run, samples, saved_files,
                   verdicts, text, tag>>

\* all_saved_files = [], processed_count = 0, the traversal begins
Start ==
    /\ pc = "start"
    /\ corpus.exists
    /\ pc' = "walk"
    /\ pos' = 1
    /\ all_saved_files' = <<>>
    /\ processed_count' = 0
    /\ UNCHANGED <<corpus, root, run, disk, summary, first_run, samples,
                   saved_files, verdicts, text, tag>>

\* The entry the loop is at.
Entry == corpus.entries[pos]

\* process_file: the first kept saves are made in full, then torn, what a
\* save that raised left behind (nothing, or one cut-off file).
Processed(r, kept, torn) ==
    /\ samples' = r.samples
    /\ saved_files' = Paths(SubSeq(r.writes, 1, kept))
    /\ disk' = SaveAll(disk, SubSeq(r.writes, 1, kept) \o torn)

\* process_file returns: every save is made.
Returns(r) ==
    /\ first_failure(r.writes, root) = 0
    /\ Processed(r, Len(r.writes), <<>>)

\* The k-th save of process_file raises OSError, the saves before it made.
Raises(r, k) ==
    /\ k # 0
    /\ Processed(r, k - 1, Torn(r.writes[k], root))

\* Some save of process_file raises OSError: the first that fails.
SaveRaises(r) == Raises(r, first_failure(r.writes, root))

\* One iteration of the loop over rglob('*'), every save succeeding.
Visit ==
    /\ pc = "walk"
    /\ pos <= Len(corpus.entries)
    /\ IF is_candidate(Entry) /\ ~is_excluded(Entry.path)
       THEN /\ Returns(process_file(Entry.path, Entry.content,
                                    Entry.readable))
            /\ all_saved_files' = all_saved_files \o saved_files'
            /\ processed_count' = processed_count + 1
       ELSE UNCHANGED <<disk, samples, saved_files, all_saved_files,
                        processed_count>>
    /\ pos' = pos + 1
    /\ UNCHANGED <<corpus, root, run, pc, summary, first_run, verdicts, text,
                   tag>>

\* One iteration in which a save raises OSError (mkdir or f.write fails):
\* neither process_file nor main catches it, and the process ends.
VisitWriteFails ==
    /\ pc = "walk"
    /\ pos <= Len(corpus.entries)
    /\ is_candidate(Entry)
    /\ ~is_excluded(Entry.path)
    /\ SaveRaises(process_file(Entry.path, Entry.content, Entry.readable))
    /\ pc' = "crashed"
    /\ UNCHANGED <<corpus, root, pos, run, all_saved_files, processed_count,
                   summary, first_run, verdicts, text, tag>>

\* The report after the loop.
Report ==
    /\ pc = "walk"
    /\ pos > Len(corpus.entries)
    /\ summary' = [processed |-> processed_count,
                   extracted |-> Len(all_saved_files),
                   by_type   |-> type_counts(all_saved_files)]
    /\ pc' = "done"
    /\ UNCHANGED <<corpus, root, pos, run, disk, all_saved_files,
                   processed_count, first_run, samples, saved_files, verdicts,
                   text, tag>>

\* main is run a second time, the corpus and the output root as they are.
Rerun ==
    /\ pc = "done"
    /\ run = 1
    /\ first_run' = [disk |-> disk, summary |-> summary]
    /\ run' = 2
    /\ pc' = "start"
    /\ summary' = NoSummary
    /\ samples' = <<>>
    /\ saved_files' = <<>>
    /\ UNCHANGED <<corpus, root, pos, disk, all_saved_files, processed_count,
                   verdicts, text, tag>>

Next == NoRepository \/ Start \/ Visit \/ VisitWriteFails \/ Report \/ Rerun

Spec == Init /\ [][Next]_vars

(* process_file on one file, then the verifier on what it wrote. *)

InitProcess ==
    /\ corpus \in {[exists |-> TRUE, entries |-> <<f>>] : f \in ProcessInputs}
    /\ root \in ROOTS
    /\ pc = "process"
    /\ text = <<>>
    /\ Blank

TheFile == corpus.entries[1]

ProcessFile ==
    /\ pc = "process"
    /\ Returns(process_file(TheFile.path, TheFile.content,
                            TheFile.readable))
    /\ pc' = "verify"
    /\ UNCHANGED <<corpus, root, pos, run, all_saved_files, processed_count,
                   summary, first_run, verdicts, text, tag>>

\* A save raises OSError, which process_file does not catch.
ProcessFileRaises ==
    /\ pc = "process"
    /\ SaveRaises(process_file(TheFile.path, TheFile.content,
                               TheFile.readable))
    /\ pc' = "raised"
    /\ UNCHANGED <<corpus, root, pos, run, all_saved_files, processed_count,
                   summary, first_run, verdicts, text, tag>>

\* verify_samples.main, run on what process_file left, whether it returned
\* or raised: fewer than 50 artifacts, so each one is checked.
VerifySamples ==
    /\ pc \in {"verify", "raised"}
    /\ verdicts' = [p \in DOMAIN disk |-> check_sample_structure(disk[p])]
    /\ pc' = IF pc = "verify" THEN "verified" ELSE "verified_raised"
    /\ UNCHANGED <<corpus, root, pos, run, disk, all_saved_files,
                   processed_count, summary, first_run, samples, saved_files,
                   text, tag>>

NextProcess == ProcessFile \/ ProcessFileRaises \/ VerifySamples

SpecProcess == InitProcess /\ [][NextProcess]_vars

(* detect_diagram_type on one text. *)

InitClassify ==
    /\ text \in ClassifyInputs
    /\ corpus = [exists |-> FALSE, entries |-> <<>>]
    /\ root = SOUND
    /\ pc = "classify"
    /\ Blank

Classify ==
    /\ pc = "classify"
    /\ tag' = detect_diagram_type(text)
    /\ pc' = "classified"
    /\ UNCHANGED <<corpus, root, pos, run, disk, all_saved_files,
                   processed_count, summary, first_run, samples, saved_files,
                   verdicts, text>>

NextClassify == Classify

SpecClassify == InitClassify /\ [][NextClassify]_vars

----------------------------------------------------------------------------
(* Properties.                                                             *)

\* process_file has returned.
Extracted == pc \in {"verify", "verified"}

EndsWith(s, p) ==
    Len(s) >= Len(p) /\ SubSeq(s, Len(s) - Len(p) + 1, Len(s)) = p

\* Empty, or whitespace only.
IsBlank(code) == \A j \in 1..Len(code) : code[j] \in Whitespace

\* _NNN.mermaid, the end of the file name of the sample of index n.
IndexSuffix(n) == <<"_">> \o Pad3(n) \o <<".", "m", "e", "r", "m", "a", "i", "d">>

\* The place in samples of the k-th sample that is not blank.
NthWritten(k) ==
    CHOOSE i \in 1..Len(samples) :
        /\ ~IsBlank(samples[i].code)
        /\ Cardinality({j \in 1..i : ~IsBlank(samples[j].code)}) = k

(* C1, as stated: the candidates process_file writes carry the indices     *)
(* 0..N-1 in discovery order, where N is the number written: the k-th      *)
(* artifact of a file is named ..._<k-1>.mermaid.                          *)
C1_WrittenIndicesContiguous ==
    Extracted =>
        \A k \in 1..Len(saved_files) :
            EndsWith(saved_files[k], IndexSuffix(k - 1))

(* C1, amended: the candidates an extractor returns, blank ones included,  *)
(* carry the indices 0..M-1 in discovery order; process_file discards the  *)
(* blank ones after that, so the k-th artifact written carries the index   *)
(* its candidate had among all the matches, and the written indices        *)
(* increase strictly, with a gap wherever a blank candidate was dropped.   *)
C1_IndicesCountEveryMatch ==
    Extracted =>
        /\ \A i \in 1..Len(samples) : samples[i].index = i - 1
        /\ Len(saved_files) =
              Cardinality({i \in 1..Len(samples) : ~IsBlank(samples[i].code)})
        /\ \A k \in 1..Len(saved_files) :
              EndsWith(saved_files[k], IndexSuffix(NthWritten(k) - 1))

\* A blank first candidate was discarded and the second one was written
\* first, under index 1.
C1_GapWitness ==
    /\ Extracted
    /\ Len(samples) >= 2
    /\ IsBlank(samples[1].code)
    /\ ~IsBlank(samples[2].code)
    /\ Len(saved_files) >= 1
    /\ EndsWith(saved_files[1], IndexSuffix(1))

(* C2: every artifact process_file wrote passes the verifier:              *)
(* check_sample_structure returns valid = true for it.                     *)
C2_EveryArtifactValid ==
    pc = "verified" => \A p \in DOMAIN verdicts : verdicts[p].valid

\* The text of the file as process_file reads it: a line ends at \n, at
\* \r\n or at \r, each read as \n.
TheText == ReadText(TheFile.content)

\* A file that holds exactly one snippet: its path and content, the snippet
\* text expected as the body, the type directory, the stem of the artifact
\* name, and the number of candidates expected of it.
Case(path, content, body, type, stem, count) ==
    [path |-> path, content |-> content, body |-> body, type |-> type,
     stem |-> stem, count |-> count]

\* The one-snippet files; content_key_count is the number of candidates
\* expected of a script file whose snippet is content: "sequenceDiagram...".
OneSnippetCases(content_key_count) ==
    {Case(MD_PATH, pre \o MD_GRAPH_BLOCK \o post, MD_GRAPH_BODY,
          <<"f", "l", "o", "w", "c", "h", "a", "r", "t">>, <<"x", "_", "m", "d">>, 1) :
       pre \in {<<>>, MD_PROSE, <<"\n">>}, post \in {<<>>, MD_PROSE, <<"\n">>}}
    \cup
    {Case(MD_PATH, pre \o MD_CRLF_BLOCK \o post, MD_GRAPH_BODY,
          <<"f", "l", "o", "w", "c", "h", "a", "r", "t">>, <<"x", "_", "m", "d">>, 1) :
       pre \in {<<>>, MD_PROSE, <<"\r">>}, post \in {<<>>, MD_PROSE, <<"\r">>}}
    \cup
    {Case(HTML_PATH, pre \o HTML_PIE_DIV \o post, HTML_PIE_BODY,
          <<"p", "i", "e">>, <<"x", "_", "h", "t", "m", "l">>, 1) :
       pre \in {<<>>, COMMENT_LINE, <<"\n">>},
       post \in {<<>>, COMMENT_LINE, <<"\n">>}}
    \cup
    {Case(HTML_PATH, pre \o HTML_LITERAL \o post, HTML_LITERAL_BODY,
          <<"f", "l", "o", "w", "c", "h", "a", "r", "t">>, <<"x", "_", "h", "t", "m", "l">>, 1) :
       pre \in {<<>>, HTML_ASSIGN, <<"\n">>}, post \in {<<>>, <<"\n">>}}
    \cup
    {Case(MERMAID_PATH, pre \o MD_GRAPH_BODY \o post, MD_GRAPH_BODY,
          <<"f", "l", "o", "w", "c", "h", "a", "r", "t">>, <<"x", "_", "m", "e", "r", "m", "a", "i", "d">>, 1) :
       pre \in {<<>>, <<" ">>, <<"\n">>}, post \in {<<>>, <<" ">>, <<"\n">>}}
    \cup
    {Case(JS_PATH, pre \o JS_SEQUENCE \o post, JS_SEQUENCE_BODY,
          <<"s", "e", "q", "u", "e", "n", "c", "e">>, <<"x", "_", "j", "s">>, 1) :
       pre \in {<<>>, JS_FILLER, <<"\n">>}, post \in {<<>>, <<"\n">>}}
    \cup
    {Case(JS_PATH, pre \o JS_CONTENT_KEY \o JS_SEQUENCE \o post,
          JS_SEQUENCE_BODY, <<"s", "e", "q", "u", "e", "n", "c", "e">>, <<"x", "_", "j", "s">>, content_key_count) :
       pre \in {<<>>, <<"\n">>}, post \in {<<>>, <<"\n">>}}

\* The file yields c.count candidates, each the snippet, and as many
\* artifacts under the type's directory, each ending in a blank line, the
\* snippet and one newline.
Yields(c) ==
    /\ Len(samples) = c.count
    /\ \A i \in 1..Len(samples) : samples[i].code = c.body
    /\ saved_files =
         [i \in 1..c.count |->
            <<"m", "e", "r", "m", "a", "i", "d", "-", "s", "a", "m", "p", "l", "e", "s", "/">> \o c.type \o <<"/">> \o c.stem
                \o IndexSuffix(i - 1)]
    /\ \A i \in 1..Len(saved_files) :
         /\ saved_files[i] \in DOMAIN disk
         /\ EndsWith(disk[saved_files[i]], <<"\n", "\n">> \o c.body \o <<"\n">>)

IsCase(c) == TheFile.path = c.path /\ TheFile.content = c.content

(* C3, as stated: for each format a file that holds exactly one snippet    *)
(* yields exactly one candidate and one artifact; so does the script file  *)
(* content: "sequenceDiagram\nA->>B: hi", under sequence/, with a real     *)
(* newline in the body.                                                    *)
C3_OneSnippetOneArtifact ==
    Extracted => \A c \in OneSnippetCases(1) : IsCase(c) => Yields(c)

\* The script files whose one string literal follows mermaid:, and what is
\* expected of them.
MermaidKeyCases ==
    {Case(JS_PATH, pre \o JS_MERMAID_KEY \o JS_SEQUENCE \o post,
          JS_SEQUENCE_BODY, <<"s", "e", "q", "u", "e", "n", "c", "e">>, <<"x", "_", "j", "s">>, 2) :
       pre \in {<<>>, <<"\n">>}, post \in {<<>>, <<"\n">>}}

\* A string literal led by a keyword opens at index q of s: a quote, a
\* keyword of the list right after it, and a quote that closes it.
OpensLiteral(s, q) ==
    /\ CharAt(s, q) \in Quotes
    /\ \E k \in 1..Len(KEYWORDS) :
          StartsWithAt(s, q + 1, KEYWORDS[k])
    /\ \E e \in (q + 1)..Len(s) : s[e] \in Quotes

\* Only whitespace lies in s from index i up to index q.
BlankBefore(s, i, q) == \A j \in i..(q - 1) : s[j] \in Whitespace

\* The snippets of a text, each by the index it begins at.  A fenced block:
\* the opening fence and a closing fence after it.
Fences(s) ==
    {i \in 1..Len(s) :
       /\ StartsWithAt(s, i, FENCE_OPEN)
       /\ \E e \in (i + Len(FENCE_OPEN))..Len(s) :
             StartsWithAt(s, e, FENCE_CLOSE)}

\* A mermaid div: <div, class="mermaid" before the first > after it, and
\* </div> after that >, in any letter case.
Divs(s) ==
    {i \in 1..Len(s) :
       /\ StartsWithAtCI(s, i, DIV_OPEN)
       /\ \E gt \in (i + Len(DIV_OPEN))..Len(s) :
             /\ s[gt] = ">"
             /\ \A j \in (i + Len(DIV_OPEN))..(gt - 1) : s[j] # ">"
             /\ \E c \in (i + Len(DIV_OPEN))..(gt - Len(DIV_CLASS)) :
                   StartsWithAtCI(s, c, DIV_CLASS)
             /\ \E e \in (gt + 1)..Len(s) :
                   StartsWithAtCI(s, e, DIV_CLOSE)}

\* A string literal led by a keyword.
Literals(s) == {q \in 1..Len(s) : OpensLiteral(s, q)}

\* mermaid:, optional whitespace and a string literal.
MermaidKeys(s) ==
    {i \in 1..Len(s) :
       /\ StartsWithAt(s, i, KEY_MERMAID)
       /\ \E q \in (i + Len(KEY_MERMAID))..Len(s) :
             /\ BlankBefore(s, i + Len(KEY_MERMAID), q)
             /\ s[q] \in Quotes
             /\ \E e \in (q + 1)..Len(s) : s[e] \in Quotes}

\* content:, optional whitespace and a string literal led by a keyword.
ContentKeys(s) ==
    {i \in 1..Len(s) :
       /\ StartsWithAt(s, i, KEY_CONTENT)
       /\ \E q \in (i + Len(KEY_CONTENT))..Len(s) :
             /\ BlankBefore(s, i + Len(KEY_CONTENT), q)
             /\ OpensLiteral(s, q)}

\* For each pattern the extractor of the path runs, the snippets of the
\* text that the pattern matches; a diagram file is one snippet.
PatternSnippets(path, s) ==
    IF Suffix(path) \in MARKDOWN_SUFFIXES THEN <<Fences(s)>>
    ELSE IF Suffix(path) \in HTML_SUFFIXES THEN <<Divs(s), Literals(s)>>
    ELSE IF Suffix(path) \in SCRIPT_SUFFIXES
      THEN <<Literals(s), MermaidKeys(s), ContentKeys(s)>>
    ELSE IF Suffix(path) = MERMAID_SUFFIX THEN <<{1}>>
    ELSE <<>>

\* No pattern finds a second snippet in the text.
AtMostOneEach(ps) == \A n \in 1..Len(ps) : Cardinality(ps[n]) <= 1

\* The number of patterns that find a snippet.
RECURSIVE PatternsMatching(_)
PatternsMatching(ps) ==
    IF ps = <<>> THEN 0
    ELSE Cardinality(Head(ps)) + PatternsMatching(Tail(ps))

\* The file as read holds at most one snippet per pattern.
OneSnippetPerPattern == AtMostOneEach(PatternSnippets(TheFile.path, TheText))

\* A candidate per pattern that finds a snippet, numbered from 0, and an
\* artifact per candidate that is not blank, which ends in a blank line,
\* the candidate's code and one newline.
OneCandidatePerPattern ==
    /\ Len(samples) = PatternsMatching(PatternSnippets(TheFile.path, TheText))
    /\ \A i \in 1..Len(samples) : samples[i].index = i - 1
    /\ Len(saved_files) =
          Cardinality({i \in 1..Len(samples) : ~IsBlank(samples[i].code)})
    /\ \A k \in 1..Len(saved_files) :
          /\ saved_files[k] \in DOMAIN disk
          /\ EndsWith(disk[saved_files[k]],
                      <<"\n", "\n">> \o samples[NthWritten(k)].code \o <<"\n">>)

(* C3, amended: a file in which no pattern of its extractor finds a second *)
(* snippet yields one candidate per pattern that finds the snippet, and    *)
(* one artifact per candidate that is not blank.  That is exactly one      *)
(* candidate for a markdown file with one fenced block, an HTML file with  *)
(* one mermaid div and no keyword-led string literal or one such literal   *)
(* and no mermaid div, a diagram file, and a script file with one          *)
(* keyword-led string literal and no mermaid: or content: key;             *)
(* a keyword-led literal after mermaid: or content: is found by the        *)
(* string-literal pattern and again by the key's pattern, and yields two   *)
(* candidates and two artifacts: content: "sequenceDiagram\nA->>B: hi"     *)
(* gives x_js_000 and x_js_001 under sequence/, each with the real         *)
(* newline.  The body is the snippet trimmed; a div's is also collapsed    *)
(* to single spaces and entity-decoded, a script literal's unescaped.      *)
C3_OneCandidatePerMatchingPattern ==
    Extracted =>
        /\ OneSnippetPerPattern => OneCandidatePerPattern
        /\ \A c \in OneSnippetCases(2) \cup MermaidKeyCases :
              IsCase(c) => OneSnippetPerPattern /\ Yields(c)

\* The script file of the example was processed: one snippet, found by two
\* patterns, and two artifacts.
C3_ContentKeyWitness ==
    /\ Extracted
    /\ TheFile.path = JS_PATH
    /\ TheFile.content = JS_CONTENT_KEY \o JS_SEQUENCE
    /\ OneSnippetPerPattern
    /\ Cardinality(Literals(TheText)) = 1
    /\ Cardinality(ContentKeys(TheText)) = 1
    /\ Len(saved_files) = 2
    /\ Len(samples) = 2
    /\ samples[1].code = JS_SEQUENCE_BODY
    /\ samples[2].code = JS_SEQUENCE_BODY

\* The documented tag of each keyword of KEYWORDS, in the order of KEYWORDS.
DOCUMENTED_TAG == <<
    <<"f", "l", "o", "w", "c", "h", "a", "r", "t">>, <<"f", "l", "o", "w", "c", "h", "a", "r", "t">>, <<"s", "e", "q", "u", "e", "n", "c", "e">>, <<"g", "a", "n", "t", "t">>, <<"c", "l", "a", "s", "s">>,
    <<"s", "t", "a", "t", "e">>, <<"p", "i", "e">>, <<"g", "i", "t">>, <<"j", "o", "u", "r", "n", "e", "y">>, <<"c", "4">>, <<"c", "4">>, <<"c", "4">>, <<"c", "4">>,
    <<"c", "4">>, <<"e", "r">>, <<"a", "r", "c", "h", "i", "t", "e", "c", "t", "u", "r", "e">>, <<"t", "i", "m", "e", "l", "i", "n", "e">>, <<"k", "a", "n", "b", "a", "n">>, <<"r", "a", "d", "a", "r">>,
    <<"t", "r", "e", "e", "m", "a", "p">>, <<"s", "a", "n", "k", "e", "y">>, <<"q", "u", "a", "d", "r", "a", "n", "t">>, <<"x", "y">>, <<"p", "a", "c", "k", "e", "t">>,
    <<"r", "e", "q", "u", "i", "r", "e", "m", "e", "n", "t">>, <<"b", "l", "o", "c", "k">>, <<"m", "i", "n", "d", "m", "a", "p">> >>

(* C4, as stated: a text that begins with a keyword of the list gets that  *)
(* keyword's documented tag, whatever follows the keyword; a text that     *)
(* begins with no keyword gets misc.                                       *)
C4_KeywordPrefixRoutes ==
    pc = "classified" =>
        /\ \A k \in 1..Len(KEYWORDS) :
              StartsWith(text, KEYWORDS[k]) => tag = DOCUMENTED_TAG[k]
        /\ (\A k \in 1..Len(KEYWORDS) : ~StartsWith(text, KEYWORDS[k]))
              => tag = MISC

\* The keyword begins s, lower-cased; graph and flowchart (the first two of
\* KEYWORDS) must be followed by a whitespace character.
Routes(k, s) ==
    /\ StartsWith(s, Lower(KEYWORDS[k]))
    /\ k \in {1, 2} => CharAt(s, Len(KEYWORDS[k]) + 1) \in Whitespace

(* C4, amended: detect_diagram_type is total and routes by the keyword     *)
(* that begins the text once lower-cased and trimmed of whitespace: every  *)
(* keyword but graph and flowchart gets its documented tag whatever        *)
(* follows it; graph and flowchart get flowchart only when a whitespace    *)
(* character follows the keyword in the trimmed text; every other text,    *)
(* the empty one included, gets misc.                                      *)
C4_RoutesTrimmedLowerCase ==
    pc = "classified" =>
        /\ \A k \in 1..Len(KEYWORDS) :
              Routes(k, Strip(Lower(text))) => tag = DOCUMENTED_TAG[k]
        /\ (\A k \in 1..Len(KEYWORDS) : ~Routes(k, Strip(Lower(text))))
              => tag = MISC

\* The text graph, with nothing after the keyword, was classified misc.
C4_BareGraphWitness ==
    /\ pc = "classified"
    /\ text = <<"g", "r", "a", "p", "h">>
    /\ tag = MISC

(* C5: a save that raises does not abort the walk: the program is always   *)
(* either still walking the corpus or done with its summary printed (or    *)
(* it found no corpus at all).                                             *)
C5_WriteFailureDoesNotAbort ==
    pc \in {"start", "walk", "done", "no_repository"}

\* Some path segment of the file is an excluded name.
HasExcludedSegment(path) ==
    \E i \in 1..Len(Split(path, "/")) : Split(path, "/")[i] \in EXCLUDED

(* C6: a file of an allowed extension is skipped if and only if a segment  *)
(* of its path equals an excluded name: the files counted as processed are *)
(* the files of an allowed extension visited so far with no such segment.  *)
C6_SkipsExactlyExcludedSegments ==
    pc \in {"walk", "done"} =>
        processed_count =
            Cardinality({i \in 1..(pos - 1) :
                           /\ is_candidate(corpus.entries[i])
                           /\ ~HasExcludedSegment(corpus.entries[i].path)})

\* The offset of the L-th line of lines in the text they were split from.
RECURSIVE Offset(_, _)
Offset(lines, L) ==
    IF L = 1 THEN 0 ELSE Offset(lines, L - 1) + Len(lines[L - 1]) + 1

\* The 1-based number of the line of content that holds index s.
LineOfIndex(content, s) ==
    CHOOSE L \in 1..Len(Split(content, "\n")) :
        /\ Offset(Split(content, "\n"), L) < s
        /\ s <= Offset(Split(content, "\n"), L)
                  + Len(Split(content, "\n")[L]) + 1

\* The matches behind the candidates of a file of the given path and text,
\* in discovery order.
MatchesIn(path, read) ==
    IF Suffix(path) \in MARKDOWN_SUFFIXES
      THEN finditer("markdown", read)
    ELSE IF Suffix(path) \in HTML_SUFFIXES
      THEN finditer("div", read) \o finditer("script", read)
    ELSE IF Suffix(path) \in SCRIPT_SUFFIXES
      THEN finditer("literal", read)
           \o finditer("mermaid_key", read)
           \o finditer("content_key", read)
    ELSE <<>>

TheMatches == MatchesIn(TheFile.path, TheText)

\* <path>:L<line>
LineLocator(path, line) == path \o <<":", "L">> \o IntStr(line)

\* The artifact begins with the header line of the locator.
HeaderNames(artifact, locator) ==
    StartsWith(artifact, <<"/", "/", " ", "S", "o", "u", "r", "c", "e", ":", " ">> \o locator \o <<"\n">>)

(* C7, as stated: every candidate handed to the classifier and writer,     *)
(* the one of a diagram file included, carries <path>:L<line> for a line   *)
(* of the file, the line on which its match begins where it has one, and   *)
(* the first line of its artifact reads Source: <path>:L<line>.            *)
C7_EveryLocatorHasLine ==
    Extracted =>
        \A k \in 1..Len(saved_files) :
            \E L \in 1..Len(Split(TheText, "\n")) :
                /\ samples[NthWritten(k)].source_info
                      = LineLocator(TheFile.path, L)
                /\ NthWritten(k) <= Len(TheMatches) =>
                      L = LineOfIndex(TheText,
                                      TheMatches[NthWritten(k)].start)
                /\ HeaderNames(disk[saved_files[k]],
                               LineLocator(TheFile.path, L))

(* C7, amended: every candidate of the markdown, HTML and script           *)
(* extractors carries <path>:L<line>, line being the 1-based line on which *)
(* its match begins, and its artifact's first line reads                   *)
(* Source: <path>:L<line>; the candidate of a diagram file carries the     *)
(* bare path, and its artifact's first line reads Source: <path>.          *)
C7_LocatorNamesMatchLine ==
    Extracted =>
        IF Suffix(TheFile.path) = MERMAID_SUFFIX
        THEN /\ Len(samples) = 1
             /\ samples[1].source_info = TheFile.path
             /\ \A k \in 1..Len(saved_files) :
                   HeaderNames(disk[saved_files[k]], TheFile.path)
        ELSE /\ Len(samples) = Len(TheMatches)
             /\ \A i \in 1..Len(samples) :
                   samples[i].source_info =
                       LineLocator(TheFile.path,
                                   LineOfIndex(TheText,
                                               TheMatches[i].start))
             /\ \A k \in 1..Len(saved_files) :
                   HeaderNames(disk[saved_files[k]],
                               samples[NthWritten(k)].source_info)

\* A block that begins on the third line of a markdown file was written
\* with Source: <path>:L3.
C7_ThirdLineWitness ==
    /\ Extracted
    /\ TheFile.path = MD_PATH
    /\ TheFile.content = MD_PROSE \o MD_GRAPH_BLOCK
    /\ Len(saved_files) = 1
    /\ HeaderNames(disk[saved_files[1]], MD_PATH \o <<":", "L", "3">>)

(* C8: after main has run twice over the same corpus into the same output  *)
(* root, the artifacts are those the first run left: the same paths with   *)
(* the same contents, also when artifacts of one run overwrite each other. *)
C8_SecondRunIdentical ==
    (run = 2 /\ pc = "done") => disk = first_run.disk

\* The second run is done, and in each run two candidates were written to
\* one path.
C8_OverwriteWitness ==
    /\ run = 2
    /\ pc = "done"
    /\ disk # <<>>
    /\ Cardinality(DOMAIN disk) < Len(all_saved_files)

(* C9: the code of every candidate has no leading and no trailing          *)
(* whitespace, also after the extractor's clean-up, and the body of every  *)
(* artifact is that code followed by exactly one newline.                  *)
C9_CodeIsTrimmed ==
    Extracted =>
        /\ \A i \in 1..Len(samples) :
              samples[i].code # <<>> =>
                  /\ Head(samples[i].code) \notin Whitespace
                  /\ Last(samples[i].code) \notin Whitespace
        /\ \A k \in 1..Len(saved_files) :
              /\ EndsWith(disk[saved_files[k]],
                          samples[NthWritten(k)].code \o <<"\n">>)
              /\ ~EndsWith(disk[saved_files[k]], <<"\n", "\n">>)

(* C10: after one run of main from an empty output root, the number of     *)
(* samples the summary reports, and the sum of its per-type counts, is the *)
(* number of artifact files on disk.                                       *)
C10_ReportedCountIsFilesOnDisk ==
    (run = 1 /\ pc = "done") =>
        /\ summary.extracted = Cardinality(DOMAIN disk)
        /\ \A t \in DOMAIN summary.by_type :
              summary.by_type[t] =
                  Cardinality({p \in DOMAIN disk : type_of(p) = t})

====
